---- MODULE Spec2Model ----
(***************************************************************************)
(* DaneJoe::MTQueue<T> (include/mt_queue/mt_queue.hpp): a FIFO buffer      *)
(* (m_queue) with a running flag (m_is_running), guarded by one mutex      *)
(* (m_mutex) and one condition variable (m_cv) per instance.               *)
(*                                                                         *)
(* Every public member function is modelled as the steps a thread takes    *)
(* through it: acquiring the mutex, the critical section (which ends by    *)
(* releasing the mutex), blocking in the condition variable's wait set,    *)
(* being woken, re-acquiring the mutex, and the notification issued after  *)
(* the critical section.                                                   *)
(***************************************************************************)
EXTENDS Integers, Sequences, FiniteSets, TLC

\* Thread identities and queue instances of the model.
Threads == {"t1", "t2", "t3", "t4", "t5"}
Queues == {"A", "B"}
None == "none"

\* Bounds of the model.
MaxCalls == 3            \* calls made in all, under Spec
MaxSingleCalls == 4      \* calls made in all, under SpecSingle
MaxDrainCalls == 4       \* calls made in all, under SpecDrain
ItemsPerProducer == 2    \* M, the items each producer pushes under SpecPC
MaxWakePush == 1         \* items pushed under SpecWake
MaxCrossMoves == 1       \* move assignments by each mover under SpecCross
MaxCrossCalls == 2       \* calls by the third thread under SpecCross
MaxIntoCalls == 2        \* calls of push and close on A under SpecMoveInto
MaxXferPush == 2         \* items each producer pushes under SpecXfer
MaxXferPops == 1         \* removing calls on A under SpecXfer
MaxSnapCalls == 4        \* calls made in all, under SpecSnap
MaxAllCalls == 2         \* calls made in all, under SpecAll

\* std::nullopt; the items are the positive integers, each pushed once.
nullopt == 0

VARIABLES
    m_queue,        \* [Queues -> Seq(item)]          std::queue<T> m_queue
    m_is_running,   \* [Queues -> BOOLEAN]            bool m_is_running
    m_mutex,        \* [Queues -> Threads \cup {None}] holder of m_mutex
    m_cv,           \* [Queues -> SUBSET Threads]     threads blocked in m_cv
    life,           \* [Queues -> {"unborn","constructing","live","dead"}]
    pc,             \* [Threads -> step of the member function it is in]
    op,             \* [Threads -> member function it is in, or None]
    this,           \* [Threads -> instance the member function runs on]
    other,          \* [Threads -> `other' of a move, or None]
    arg,            \* [Threads -> item passed to push, or nullopt]
    ret,            \* [Threads -> what its last call returned]
    ncalls,         \* [Threads -> number of calls it has made]
    next_item,      \* the next fresh item
    pushed,         \* [Queues -> items whose push returned true, in order]
    removed,        \* [Queues -> items returned by removing calls, in order]
    rejected,       \* items whose push returned false
    owed,           \* [Queues -> items buffered at the last close(), not yet
                    \*            matched by a removing call]
    drained,        \* [Queues -> removing calls since then that were owed an item]
    xfer,           \* [Queues -> instance took part in a move since then]
    dangling,       \* threads that touched an instance after its lifetime
    closed,         \* [Queues -> a critical section of close() has run on it]
    elapsed,        \* [Threads -> the bound of its current or last call's
                    \*             timed wait has elapsed]
    peeked          \* [Queues -> the item the last front() on the instance
                    \*            copied, if no push, removing call, close or move
                    \*            has run on the instance since; or nullopt]

qvars == <<m_queue, m_is_running, m_mutex, m_cv, life>>
tvars == <<pc, op, this, other, arg, ret, ncalls>>
gvars == <<next_item, pushed, removed, rejected, owed, drained, xfer, dangling,
           closed, elapsed, peeked>>
vars == <<m_queue, m_is_running, m_mutex, m_cv, life,
          pc, op, this, other, arg, ret, ncalls,
          next_item, pushed, removed, rejected, owed, drained, xfer, dangling,
          closed, elapsed, peeked>>

NoRet == [op |-> None, q |-> None, item |-> nullopt, ok |-> FALSE]

RemovingOps == {"pop", "try_pop", "pop_for", "pop_until"}
WaitingOps == {"pop", "front", "pop_for", "pop_until"}
TimedOps == {"pop_for", "pop_until"}

\* Members as initialised at construction: empty m_queue, m_is_running = true.
Init ==
    /\ m_queue = [q \in Queues |-> <<>>]
    /\ m_is_running = [q \in Queues |-> TRUE]
    /\ m_mutex = [q \in Queues |-> None]
    /\ m_cv = [q \in Queues |-> {}]
    /\ life = [q \in Queues |-> IF q = "A" THEN "live" ELSE "unborn"]
    /\ pc = [t \in Threads |-> "idle"]
    /\ op = [t \in Threads |-> None]
    /\ this = [t \in Threads |-> None]
    /\ other = [t \in Threads |-> None]
    /\ arg = [t \in Threads |-> nullopt]
    /\ ret = [t \in Threads |-> NoRet]
    /\ ncalls = [t \in Threads |-> 0]
    /\ next_item = 1
    /\ pushed = [q \in Queues |-> <<>>]
    /\ removed = [q \in Queues |-> <<>>]
    /\ rejected = {}
    /\ owed = [q \in Queues |-> <<>>]
    /\ drained = [q \in Queues |-> 0]
    /\ xfer = [q \in Queues |-> FALSE]
    /\ dangling = {}
    /\ closed = [q \in Queues |-> FALSE]
    /\ elapsed = [t \in Threads |-> FALSE]
    /\ peeked = [q \in Queues |-> nullopt]

----------------------------------------------------------------------------
(* std::queue and std::condition_variable, as the member functions use them *)

\* m_queue.push(item)
QueuePushFront(s, x) == <<x>> \o s
QueuePush(s, x) == Append(s, x)

\* m_queue.front()
QueueBack(s) == s[Len(s)]
QueueFront(s) == Head(s)

\* m_queue.pop()
QueuePopBack(s) == SubSeq(s, 1, Len(s) - 1)
QueuePop(s) == Tail(s)

\* The wait predicate of pop, pop_until, pop_for and front.
WaitPredNonEmpty(q) == m_queue[q] # <<>>
WaitPredUnchecked(q) == TRUE
WaitPred(q) == m_queue[q] # <<>> \/ ~m_is_running[q]

\* The sets of waiters m_cv.notify_one() may leave blocked: it unblocks one
\* of the threads blocked in m_cv, any of them, and none if none is blocked.
NotifyOne(w) == IF w = {} THEN {{}} ELSE {w \ {t} : t \in w}

\* m_cv.notify_all() unblocks every thread blocked in m_cv.
NotifyAllAsOne(w) == NotifyOne(w)
NotifyAll(w) == {{}}

----------------------------------------------------------------------------
(* Steps shared by the member functions *)

\* A call of member function o on instance q starts by taking m_mutex
\* (std::lock_guard / std::unique_lock); it blocks while another thread holds it.
Lock(t, q, o, p) ==
    /\ pc[t] = "idle"
    /\ life[q] = "live"
    /\ m_mutex[q] = None
    /\ m_mutex' = [m_mutex EXCEPT ![q] = t]
    /\ pc' = [pc EXCEPT ![t] = p]
    /\ op' = [op EXCEPT ![t] = o]
    /\ this' = [this EXCEPT ![t] = q]
    /\ ncalls' = [ncalls EXCEPT ![t] = @ + 1]
    /\ elapsed' = [elapsed EXCEPT ![t] = FALSE]

\* The call returns: the lock goes out of scope and the thread is idle again.
\* pcs is the threads' steps before the return (a notification changes others').
Finish(t, item, ok, pcs) ==
    /\ ret' = [ret EXCEPT ![t] = [op |-> op[t], q |-> this[t], item |-> item, ok |-> ok]]
    /\ pc' = [pcs EXCEPT ![t] = "idle"]
    /\ op' = [op EXCEPT ![t] = None]
    /\ this' = [this EXCEPT ![t] = None]
    /\ other' = [other EXCEPT ![t] = None]
    /\ arg' = [arg EXCEPT ![t] = nullopt]

Return(t, item, ok) == Finish(t, item, ok, pc)

\* What a removing call does to the ghost record of the last close().
Settle(q) ==
    /\ owed' = [owed EXCEPT ![q] = IF @ = <<>> THEN @ ELSE Tail(@)]
    /\ drained' = [drained EXCEPT ![q] = IF owed[q] = <<>> THEN @ ELSE @ + 1]

\* if (m_queue.empty()) return std::nullopt;
\* T item = std::move(m_queue.front()); m_queue.pop(); return item;
TakeFront(t) ==
    LET q == this[t] IN
    /\ m_mutex[q] = t
    /\ IF m_queue[q] = <<>>
       THEN /\ Return(t, nullopt, FALSE)
            /\ UNCHANGED <<m_queue, removed>>
       ELSE /\ Return(t, QueueFront(m_queue[q]), TRUE)
            /\ m_queue' = [m_queue EXCEPT ![q] = QueuePop(@)]
            /\ removed' = [removed EXCEPT ![q] = Append(@, QueueFront(m_queue[q]))]
    /\ Settle(q)
    /\ peeked' = [peeked EXCEPT ![q] = nullopt]
    /\ m_mutex' = [m_mutex EXCEPT ![q] = None]
    /\ UNCHANGED <<m_is_running, m_cv, life, ncalls,
                   next_item, pushed, rejected, xfer, dangling, closed, elapsed>>

\* if (!m_queue.empty()) { T item = m_queue.front(); return item; }
\* return std::nullopt;
CopyFrontAndPop(t) == TakeFront(t)
CopyFront(t) ==
    LET q == this[t] IN
    /\ m_mutex[q] = t
    /\ IF m_queue[q] # <<>>
       THEN /\ Return(t, QueueFront(m_queue[q]), TRUE)
            /\ peeked' = [peeked EXCEPT ![q] = QueueFront(m_queue[q])]
       ELSE /\ Return(t, nullopt, FALSE)
            /\ peeked' = [peeked EXCEPT ![q] = nullopt]
    /\ m_mutex' = [m_mutex EXCEPT ![q] = None]
    /\ UNCHANGED <<m_queue, m_is_running, m_cv, life, ncalls,
                   next_item, pushed, removed, rejected, owed, drained, xfer, dangling,
                   closed, elapsed>>

\* condition_variable::wait(lock): the mutex is released and the thread joins
\* the wait set of m_cv in one atomic step.
Block(t) ==
    LET q == this[t] IN
    /\ m_mutex[q] = t
    /\ m_mutex' = [m_mutex EXCEPT ![q] = None]
    /\ m_cv' = [m_cv EXCEPT ![q] = @ \cup {t}]
    /\ pc' = [pc EXCEPT ![t] = "blocked"]
    /\ UNCHANGED <<m_queue, m_is_running, life, op, this, other, arg, ret, ncalls, gvars>>

\* An unblocked thread re-acquires m_mutex before wait() returns.
RelockBarging(t) ==
    LET q == this[t] IN
    /\ pc[t] \in {"woken", "timedout"}
    /\ life[q] = "live"
    /\ m_mutex' = [m_mutex EXCEPT ![q] = t]
    /\ pc' = [pc EXCEPT ![t] = IF pc[t] = "woken" THEN "wait_cs" ELSE "final_cs"]
    /\ UNCHANGED <<m_queue, m_is_running, m_cv, life, op, this, other, arg, ret, ncalls, gvars>>
Relock(t) ==
    LET q == this[t] IN
    /\ pc[t] \in {"woken", "timedout"}
    /\ life[q] = "live"
    /\ m_mutex[q] = None
    /\ m_mutex' = [m_mutex EXCEPT ![q] = t]
    /\ pc' = [pc EXCEPT ![t] = IF pc[t] = "woken" THEN "wait_cs" ELSE "final_cs"]
    /\ UNCHANGED <<m_queue, m_is_running, m_cv, life, op, this, other, arg, ret, ncalls, gvars>>

\* A wait may return with no notification (spurious wakeup).
SpuriousWakeup(t) ==
    /\ pc[t] = "blocked"
    /\ life[this[t]] = "live"
    /\ m_cv' = [m_cv EXCEPT ![this[t]] = @ \ {t}]
    /\ pc' = [pc EXCEPT ![t] = "woken"]
    /\ UNCHANGED <<m_queue, m_is_running, m_mutex, life, op, this, other, arg, ret, ncalls, gvars>>

\* wait_until / wait_for: the bound elapses while the thread is blocked; it
\* re-acquires the mutex and the predicate is evaluated a last time.
Timeout(t) ==
    /\ pc[t] = "blocked"
    /\ op[t] \in TimedOps
    /\ life[this[t]] = "live"
    /\ m_cv' = [m_cv EXCEPT ![this[t]] = @ \ {t}]
    /\ pc' = [pc EXCEPT ![t] = "timedout"]
    /\ elapsed' = [elapsed EXCEPT ![t] = TRUE]
    /\ UNCHANGED <<m_queue, m_is_running, m_mutex, life, op, this, other, arg, ret, ncalls,
                   next_item, pushed, removed, rejected, owed, drained, xfer, dangling, closed,
                   peeked>>

\* The threads' steps after a notification of m_cv[q] that leaves the threads
\* in w blocked and unblocks the rest.
Woken(q, w) == [u \in Threads |-> IF u \in m_cv[q] \ w THEN "woken" ELSE pc[u]]

----------------------------------------------------------------------------
(* The member functions *)

\* The parts of the state a call to a waiting or removing function leaves
\* alone when it takes the mutex.
CallFrame ==
    UNCHANGED <<m_queue, m_is_running, m_cv, life, other, arg, ret,
                next_item, pushed, removed, rejected, owed, drained, xfer, dangling, closed,
                peeked>>

\* std::optional<T> pop()
pop_lock(t, q) == Lock(t, q, "pop", "wait_cs") /\ CallFrame

pop_wait(t) ==
    /\ pc[t] = "wait_cs" /\ op[t] = "pop"
    /\ IF WaitPred(this[t]) THEN TakeFront(t) ELSE Block(t)

\* std::optional<T> try_pop()
try_pop_lock(t, q) == Lock(t, q, "try_pop", "try_cs") /\ CallFrame

try_pop_waits(t) ==
    /\ pc[t] = "try_cs" /\ op[t] = "try_pop"
    /\ IF WaitPred(this[t]) THEN TakeFront(t) ELSE Block(t)
try_pop_cs(t) ==
    /\ pc[t] = "try_cs" /\ op[t] = "try_pop"
    /\ TakeFront(t)

\* What pop_until and pop_for do when wait_until / wait_for has returned
\* because the bound elapsed: the buffer is looked at again under the mutex.
TimedOutAbsent(t) ==
    LET q == this[t] IN
    /\ m_mutex[q] = t
    /\ Return(t, nullopt, FALSE)
    /\ m_mutex' = [m_mutex EXCEPT ![q] = None]
    /\ UNCHANGED <<m_queue, m_is_running, m_cv, life, ncalls, gvars>>
TimedOutCheck(t) == TakeFront(t)

\* std::optional<T> pop_until(Period timeout)
pop_until_lock(t, q) == Lock(t, q, "pop_until", "wait_cs") /\ CallFrame

pop_until_wait(t) ==
    /\ op[t] = "pop_until"
    /\ \/ pc[t] = "wait_cs" /\ IF WaitPred(this[t]) THEN TakeFront(t) ELSE Block(t)
       \/ pc[t] = "final_cs" /\ TimedOutCheck(t)

\* std::optional<T> pop_for(Period timeout)
pop_for_lock(t, q) == Lock(t, q, "pop_for", "wait_cs") /\ CallFrame

pop_for_wait(t) ==
    /\ op[t] = "pop_for"
    /\ \/ pc[t] = "wait_cs" /\ IF WaitPred(this[t]) THEN TakeFront(t) ELSE Block(t)
       \/ pc[t] = "final_cs" /\ TimedOutCheck(t)

\* std::optional<T> front() const
front_lock(t, q) == Lock(t, q, "front", "wait_cs") /\ CallFrame

front_wait(t) ==
    /\ pc[t] = "wait_cs" /\ op[t] = "front"
    /\ IF WaitPred(this[t]) THEN CopyFront(t) ELSE Block(t)

\* m_queue.empty() and m_queue.size()
QueueEmpty(s) == s = <<>>

QueueSizePlusOne(s) == Len(s) + 1
QueueSize(s) == Len(s)

\* The snapshots, each one critical section under std::lock_guard.
\* bool empty() const
empty_lock(t, q) == Lock(t, q, "empty", "snap_cs") /\ CallFrame

empty_cs(t) ==
    LET q == this[t] IN
    /\ pc[t] = "snap_cs" /\ op[t] = "empty"
    /\ m_mutex[q] = t
    /\ Return(t, nullopt, QueueEmpty(m_queue[q]))
    /\ m_mutex' = [m_mutex EXCEPT ![q] = None]
    /\ UNCHANGED <<m_queue, m_is_running, m_cv, life, ncalls, gvars>>

\* std::size_t size() const; the size is returned in the item field.
size_lock(t, q) == Lock(t, q, "size", "snap_cs") /\ CallFrame

size_cs(t) ==
    LET q == this[t] IN
    /\ pc[t] = "snap_cs" /\ op[t] = "size"
    /\ m_mutex[q] = t
    /\ Return(t, QueueSize(m_queue[q]), TRUE)
    /\ m_mutex' = [m_mutex EXCEPT ![q] = None]
    /\ UNCHANGED <<m_queue, m_is_running, m_cv, life, ncalls, gvars>>

\* bool is_running() const
is_running_lock(t, q) == Lock(t, q, "is_running", "snap_cs") /\ CallFrame

is_running_cs(t) ==
    LET q == this[t] IN
    /\ pc[t] = "snap_cs" /\ op[t] = "is_running"
    /\ m_mutex[q] = t
    /\ Return(t, nullopt, m_is_running[q])
    /\ m_mutex' = [m_mutex EXCEPT ![q] = None]
    /\ UNCHANGED <<m_queue, m_is_running, m_cv, life, ncalls, gvars>>

\* bool push(T item)
PushAlways(q) == TRUE
PushAllowed(q) == m_is_running[q]

push_lock(t, q) ==
    /\ Lock(t, q, "push", "push_cs")
    /\ arg' = [arg EXCEPT ![t] = next_item]
    /\ next_item' = next_item + 1
    /\ UNCHANGED <<m_queue, m_is_running, m_cv, life, other, ret,
                   pushed, removed, rejected, owed, drained, xfer, dangling, closed, peeked>>

push_cs(t) ==
    LET q == this[t] IN
    /\ pc[t] = "push_cs"
    /\ m_mutex[q] = t
    /\ m_mutex' = [m_mutex EXCEPT ![q] = None]
    /\ IF PushAllowed(q)
       THEN /\ m_queue' = [m_queue EXCEPT ![q] = QueuePush(@, arg[t])]
            /\ pushed' = [pushed EXCEPT ![q] = Append(@, arg[t])]
            /\ pc' = [pc EXCEPT ![t] = "push_notify"]
            /\ UNCHANGED <<op, this, other, arg, ret, rejected>>
       ELSE /\ Return(t, arg[t], FALSE)
            /\ rejected' = rejected \cup {arg[t]}
            /\ UNCHANGED <<m_queue, pushed>>
    /\ peeked' = [peeked EXCEPT ![q] = nullopt]
    /\ UNCHANGED <<m_is_running, m_cv, life, ncalls,
                   next_item, removed, owed, drained, xfer, dangling, closed, elapsed>>

push_notify(t) ==
    LET q == this[t] IN
    /\ pc[t] = "push_notify"
    /\ life[q] = "live"
    /\ \E w \in NotifyOne(m_cv[q]) :
          /\ m_cv' = [m_cv EXCEPT ![q] = w]
          /\ Finish(t, arg[t], TRUE, Woken(q, w))
    /\ UNCHANGED <<m_queue, m_is_running, m_mutex, life, ncalls, gvars>>

\* void close()
CloseCs(t, p) ==
    LET q == this[t] IN
    /\ pc[t] = "close_cs"
    /\ m_mutex[q] = t
    /\ m_is_running' = [m_is_running EXCEPT ![q] = FALSE]
    /\ m_mutex' = [m_mutex EXCEPT ![q] = None]
    /\ pc' = [pc EXCEPT ![t] = p]
    /\ owed' = [owed EXCEPT ![q] = m_queue[q]]
    /\ drained' = [drained EXCEPT ![q] = 0]
    /\ xfer' = [xfer EXCEPT ![q] = FALSE]
    /\ closed' = [closed EXCEPT ![q] = TRUE]
    /\ peeked' = [peeked EXCEPT ![q] = nullopt]
    /\ UNCHANGED <<m_queue, m_cv, life, op, this, other, arg, ret, ncalls,
                   next_item, pushed, removed, rejected, dangling, elapsed>>

close_lock(t, q) == Lock(t, q, "close", "close_cs") /\ CallFrame

close_cs_toggles(t) ==
    LET q == this[t] IN
    /\ op[t] = "close" /\ pc[t] = "close_cs"
    /\ m_mutex[q] = t
    /\ m_is_running' = [m_is_running EXCEPT ![q] = ~m_is_running[q]]
    /\ m_mutex' = [m_mutex EXCEPT ![q] = None]
    /\ pc' = [pc EXCEPT ![t] = "close_notify"]
    /\ UNCHANGED <<m_queue, m_cv, life, op, this, other, arg, ret, ncalls, gvars>>
close_cs(t) == op[t] = "close" /\ CloseCs(t, "close_notify")

close_notify(t) ==
    LET q == this[t] IN
    /\ pc[t] = "close_notify" /\ op[t] = "close"
    /\ life[q] = "live"
    /\ \E w \in NotifyAll(m_cv[q]) :
          /\ m_cv' = [m_cv EXCEPT ![q] = w]
          /\ Finish(t, nullopt, TRUE, Woken(q, w))
    /\ UNCHANGED <<m_queue, m_is_running, m_mutex, life, ncalls, gvars>>

\* ~MTQueue() noexcept { close(); }  The members, m_mutex and m_cv among them,
\* are destroyed when the body has run: the instance's lifetime ends.
dtor_lock(t, q) == Lock(t, q, "~MTQueue", "close_cs") /\ CallFrame

dtor_close_cs(t) == op[t] = "~MTQueue" /\ CloseCs(t, "close_notify")

dtor_close_notify(t) ==
    LET q == this[t] IN
    /\ pc[t] = "close_notify" /\ op[t] = "~MTQueue"
    /\ \E w \in NotifyAll(m_cv[q]) :
          /\ m_cv' = [m_cv EXCEPT ![q] = w]
          /\ pc' = [Woken(q, w) EXCEPT ![t] = "dtor_end"]
    /\ UNCHANGED <<m_queue, m_is_running, m_mutex, life, op, this, other, arg,
                   ret, ncalls, gvars>>

dtor_end(t) ==
    /\ pc[t] = "dtor_end"
    /\ life' = [life EXCEPT ![this[t]] = "dead"]
    /\ Return(t, nullopt, TRUE)
    /\ UNCHANGED <<m_queue, m_is_running, m_mutex, m_cv, ncalls, gvars>>

\* A thread still inside a member function of an instance whose lifetime has
\* ended uses destroyed members (m_mutex, m_cv, m_queue): undefined behaviour.
\* The call may return anything of its type, or never return.
use_after_destroy(t) ==
    /\ pc[t] \notin {"idle", "crashed"}
    /\ this[t] # None
    /\ life[this[t]] = "dead"
    /\ dangling' = dangling \cup {t}
    /\ m_cv' = [q \in Queues |-> m_cv[q] \ {t}]
    /\ m_mutex' = [q \in Queues |-> IF m_mutex[q] = t THEN None ELSE m_mutex[q]]
    /\ \/ \E v \in 0..(next_item - 1) : Return(t, v, v # nullopt)
       \/ /\ pc' = [pc EXCEPT ![t] = "crashed"]
          /\ UNCHANGED <<op, this, other, arg, ret>>
    /\ UNCHANGED <<m_queue, m_is_running, life, ncalls,
                   next_item, pushed, removed, rejected, owed, drained, xfer, closed, elapsed,
                   peeked>>

\* MTQueue() = default;
default_ctor(q) ==
    /\ life[q] = "unborn"
    /\ life' = [life EXCEPT ![q] = "live"]
    /\ UNCHANGED <<m_queue, m_is_running, m_mutex, m_cv, tvars, gvars>>

\* MTQueue(MTQueue&& other) noexcept: the new instance's members are default
\* initialised (empty, running) before the body takes both mutexes.
move_ctor_call(t, q, o) ==
    /\ pc[t] = "idle"
    /\ life[q] = "unborn" /\ life[o] = "live"
    /\ life' = [life EXCEPT ![q] = "constructing"]
    /\ pc' = [pc EXCEPT ![t] = "mv_lock_this"]
    /\ op' = [op EXCEPT ![t] = "move_ctor"]
    /\ this' = [this EXCEPT ![t] = q]
    /\ other' = [other EXCEPT ![t] = o]
    /\ ncalls' = [ncalls EXCEPT ![t] = @ + 1]
    /\ UNCHANGED <<m_queue, m_is_running, m_mutex, m_cv, arg, ret, gvars>>

\* MTQueue& operator=(MTQueue&& other) noexcept
\* if (this == &other) return *this;
move_assign_self(t, q) ==
    /\ pc[t] = "idle"
    /\ life[q] = "live"
    /\ ret' = [ret EXCEPT ![t] = [op |-> "move_assign", q |-> q, item |-> nullopt, ok |-> FALSE]]
    /\ ncalls' = [ncalls EXCEPT ![t] = @ + 1]
    /\ UNCHANGED <<qvars, pc, op, this, other, arg, gvars>>

move_assign_call(t, q, o) ==
    /\ pc[t] = "idle"
    /\ q # o
    /\ life[q] = "live" /\ life[o] = "live"
    /\ pc' = [pc EXCEPT ![t] = "mv_lock_this"]
    /\ op' = [op EXCEPT ![t] = "move_assign"]
    /\ this' = [this EXCEPT ![t] = q]
    /\ other' = [other EXCEPT ![t] = o]
    /\ ncalls' = [ncalls EXCEPT ![t] = @ + 1]
    /\ UNCHANGED <<qvars, arg, ret, gvars>>

\* std::scoped_lock lock(m_mutex, other.m_mutex) is std::lock, which the
\* standard only requires to avoid deadlock; the standard libraries all do it
\* by try-and-back-off: block on one mutex, try_lock the other; on failure
\* release the one held and start again, from the same mutex or from the one
\* that was busy, depending on the library.
scoped_lock_first(t) ==
    LET m == IF pc[t] = "mv_lock_this" THEN this[t] ELSE other[t] IN
    /\ pc[t] \in {"mv_lock_this", "mv_lock_other"}
    /\ m_mutex[m] = None
    /\ m_mutex' = [m_mutex EXCEPT ![m] = t]
    /\ pc' = [pc EXCEPT ![t] = IF pc[t] = "mv_lock_this" THEN "mv_try_other" ELSE "mv_try_this"]
    /\ UNCHANGED <<m_queue, m_is_running, m_cv, life, op, this, other, arg, ret,
                   ncalls, gvars>>

\* A thread that holds one mutex and finds the other busy blocks on it,
\* keeping the one it holds (what two plain lock() calls would do).
scoped_lock_holds_and_waits(t) ==
    LET want == IF pc[t] = "mv_try_other" THEN other[t] ELSE this[t] IN
    /\ pc[t] \in {"mv_try_other", "mv_try_this"}
    /\ m_mutex[want] = None
    /\ m_mutex' = [m_mutex EXCEPT ![want] = t]
    /\ pc' = [pc EXCEPT ![t] = "mv_cs"]
    /\ UNCHANGED <<m_queue, m_is_running, m_cv, life, op, this, other, arg, ret,
                   ncalls, gvars>>
scoped_lock_try(t) ==
    LET want == IF pc[t] = "mv_try_other" THEN other[t] ELSE this[t] IN
    /\ pc[t] \in {"mv_try_other", "mv_try_this"}
    /\ IF m_mutex[want] = None
       THEN /\ m_mutex' = [m_mutex EXCEPT ![want] = t]
            /\ pc' = [pc EXCEPT ![t] = "mv_cs"]
       ELSE /\ m_mutex' = m_mutex
            /\ pc' = [pc EXCEPT ![t] = IF pc[t] = "mv_try_other" THEN "mv_back_this" ELSE "mv_back_other"]
    /\ UNCHANGED <<m_queue, m_is_running, m_cv, life, op, this, other, arg, ret,
                   ncalls, gvars>>

\* The try_lock failed: the mutex held is released before the next attempt.
scoped_lock_backoff(t) ==
    LET held == IF pc[t] = "mv_back_this" THEN this[t] ELSE other[t] IN
    /\ pc[t] \in {"mv_back_this", "mv_back_other"}
    /\ m_mutex[held] = t
    /\ m_mutex' = [m_mutex EXCEPT ![held] = None]
    /\ \E p \in {"mv_lock_this", "mv_lock_other"} : pc' = [pc EXCEPT ![t] = p]
    /\ UNCHANGED <<m_queue, m_is_running, m_cv, life, op, this, other, arg, ret,
                   ncalls, gvars>>

\* The moved-from std::queue (m_queue = std::move(other.m_queue)) is empty.
MovedFromKept(s) == s
MovedFrom(s) == <<>>

\* m_is_running = other.m_is_running; other.m_is_running = false;
\* the pair (this, other) of flags after the two assignments.
MoveRunningSwapped(mine, others) == <<others, mine>>
MoveRunningLeftOpen(mine, others) == <<others, others>>
MoveRunning(mine, others) == <<others, FALSE>>

\* m_queue = std::move(other.m_queue); m_is_running = other.m_is_running;
\* other.m_is_running = false;  then both mutexes are released.
move_cs(t) ==
    LET q == this[t]
        o == other[t]
        r == MoveRunning(m_is_running[q], m_is_running[o]) IN
    /\ pc[t] = "mv_cs"
    /\ m_mutex[q] = t /\ m_mutex[o] = t
    /\ m_queue' = [m_queue EXCEPT ![q] = m_queue[o], ![o] = MovedFrom(m_queue[o])]
    /\ m_is_running' = [m_is_running EXCEPT ![q] = r[1], ![o] = r[2]]
    /\ m_mutex' = [m_mutex EXCEPT ![q] = None, ![o] = None]
    /\ life' = [life EXCEPT ![q] = "live"]
    /\ xfer' = [xfer EXCEPT ![q] = TRUE, ![o] = TRUE]
    /\ Return(t, nullopt, TRUE)
    /\ peeked' = [peeked EXCEPT ![q] = nullopt, ![o] = nullopt]
    /\ UNCHANGED <<m_cv, ncalls, next_item, pushed, removed, rejected, owed,
                   drained, dangling, closed, elapsed>>

----------------------------------------------------------------------------
(* Specifications *)

RECURSIVE Sum(_, _)
Sum(f, S) == IF S = {} THEN 0 ELSE LET x == CHOOSE y \in S : TRUE IN f[x] + Sum(f, S \ {x})

\* Calls made so far, by all threads.
Calls == Sum(ncalls, Threads)

\* The steps of a call in progress, whatever the member function.
Step(t) ==
    \/ pop_wait(t)
    \/ try_pop_cs(t)
    \/ pop_until_wait(t)
    \/ pop_for_wait(t)
    \/ front_wait(t)
    \/ Relock(t)
    \/ Timeout(t)
    \/ push_cs(t)
    \/ push_notify(t)
    \/ close_cs(t)
    \/ close_notify(t)

\* The calls a thread may make on a live instance.
Call(t, q) ==
    \/ pop_lock(t, q)
    \/ try_pop_lock(t, q)
    \/ pop_until_lock(t, q)
    \/ pop_for_lock(t, q)
    \/ front_lock(t, q)
    \/ push_lock(t, q)
    \/ close_lock(t, q)

MoveStep(t) ==
    \/ scoped_lock_first(t)
    \/ scoped_lock_try(t)
    \/ scoped_lock_backoff(t)
    \/ move_cs(t)

MoveCall(t) ==
    \/ \E q \in Queues : move_assign_self(t, q)
    \/ \E q, o \in Queues : move_assign_call(t, q, o)
    \/ \E q, o \in Queues : move_ctor_call(t, q, o)

\* Spec: the threads of Workers make any calls, moves included, on two
\* instances; MaxCalls calls in all.
Workers == {"t1", "t2"}

Next ==
    \/ \E t \in Workers : Step(t)
    \/ \E t \in Workers : SpuriousWakeup(t)
    \/ \E t \in Workers : MoveStep(t)
    \/ \E t \in Workers, q \in Queues : Calls < MaxCalls /\ Call(t, q)
    \/ \E t \in Workers : Calls < MaxCalls /\ MoveCall(t)
    \/ \E q \in Queues : default_ctor(q)

Spec == Init /\ [][Next]_vars

\* SpecSingle: the same calls on the one instance A, with no move;
\* MaxSingleCalls calls in all.
NextSingle ==
    \/ \E t \in Workers : Step(t)
    \/ \E t \in Workers : SpuriousWakeup(t)
    \/ \E t \in Workers : Calls < MaxSingleCalls /\ Call(t, "A")

SpecSingle == Init /\ [][NextSingle]_vars

\* SpecDrain: push, close and the removing calls on A, while A is moved to and
\* from B; MaxDrainCalls calls in all.
DrainCall(t) ==
    \/ push_lock(t, "A")
    \/ close_lock(t, "A")
    \/ pop_lock(t, "A")
    \/ try_pop_lock(t, "A")
    \/ pop_until_lock(t, "A")
    \/ pop_for_lock(t, "A")
    \/ \E q, o \in Queues : move_assign_call(t, q, o)
    \/ move_ctor_call(t, "B", "A")

DrainStep(t) ==
    \/ pop_wait(t)
    \/ try_pop_cs(t)
    \/ pop_until_wait(t)
    \/ pop_for_wait(t)
    \/ Relock(t)
    \/ Timeout(t)
    \/ SpuriousWakeup(t)
    \/ push_cs(t)
    \/ push_notify(t)
    \/ close_cs(t)
    \/ close_notify(t)
    \/ MoveStep(t)

NextDrain ==
    \/ \E t \in Workers : DrainStep(t)
    \/ \E t \in Workers : Calls < MaxDrainCalls /\ DrainCall(t)
    \/ default_ctor("B")

SpecDrain == Init /\ [][NextDrain]_vars

\* SpecPC: the producers each push ItemsPerProducer items on A, the consumers
\* loop on pop() until it returns absent, and close() is called once, when
\* every producer has returned from its last push.
Producers == {"t1", "t2"}
Consumers == {"t3", "t4"}
Closer == "t5"

ConsumerDone(t) == pc[t] = "idle" /\ ret[t].op = "pop" /\ ~ret[t].ok
ProducersDone == \A p \in Producers : pc[p] = "idle" /\ ncalls[p] = ItemsPerProducer

ProducerAct(t) ==
    \/ ncalls[t] < ItemsPerProducer /\ push_lock(t, "A")
    \/ push_cs(t)
    \/ push_notify(t)

ConsumerAct(t) ==
    \/ ~ConsumerDone(t) /\ pop_lock(t, "A")
    \/ pop_wait(t)
    \/ Relock(t)

CloserAct(t) ==
    \/ ProducersDone /\ ncalls[t] = 0 /\ close_lock(t, "A")
    \/ close_cs(t)
    \/ close_notify(t)

NextPC ==
    \/ \E t \in Producers : ProducerAct(t)
    \/ \E t \in Consumers : ConsumerAct(t)
    \/ \E t \in Consumers : SpuriousWakeup(t)
    \/ CloserAct(Closer)

\* Fair scheduling: a thread that can take a step again and again (the mutex
\* it needs is free again and again) eventually takes it. A spurious wakeup
\* is never owed.
FairPC ==
    /\ \A t \in Producers : SF_vars(ProducerAct(t))
    /\ \A t \in Consumers : SF_vars(ConsumerAct(t))
    /\ SF_vars(CloserAct(Closer))

SpecPC == Init /\ [][NextPC]_vars /\ FairPC

\* SpecShutdown: each thread of Waiters calls pop() or front() once on the
\* empty, running instance A; when all of them are blocked, close() is called
\* once. No other call is made.
Waiters == {"t1", "t2", "t3"}

AllBlocked == \A t \in Waiters : pc[t] = "blocked"

WaiterAct(t) ==
    \/ ncalls[t] = 0 /\ pop_lock(t, "A")
    \/ ncalls[t] = 0 /\ front_lock(t, "A")
    \/ pop_wait(t)
    \/ front_wait(t)
    \/ Relock(t)

ShutdownAct(t) ==
    \/ AllBlocked /\ ncalls[t] = 0 /\ close_lock(t, "A")
    \/ close_cs(t)
    \/ close_notify(t)

NextShutdown ==
    \/ \E t \in Waiters : WaiterAct(t)
    \/ \E t \in Waiters : SpuriousWakeup(t)
    \/ ShutdownAct(Closer)

FairShutdown ==
    /\ \A t \in Waiters : SF_vars(WaiterAct(t))
    /\ SF_vars(ShutdownAct(Closer))

SpecShutdown == Init /\ [][NextShutdown]_vars /\ FairShutdown

\* SpecWake: one thread calls pop(), one front(), one pop_for() or
\* pop_until(), once each, on the running instance A, while a producer pushes
\* MaxWakePush items. The bound of a timed wait eventually elapses.
Popper == "t1"
Peeker == "t2"
TimedPopper == "t3"
Pusher == "t4"

PopperAct(t) ==
    \/ ncalls[t] = 0 /\ pop_lock(t, "A")
    \/ pop_wait(t)
    \/ Relock(t)

PeekerAct(t) ==
    \/ ncalls[t] = 0 /\ front_lock(t, "A")
    \/ front_wait(t)
    \/ Relock(t)

TimedPopperAct(t) ==
    \/ ncalls[t] = 0 /\ pop_for_lock(t, "A")
    \/ ncalls[t] = 0 /\ pop_until_lock(t, "A")
    \/ pop_for_wait(t)
    \/ pop_until_wait(t)
    \/ Timeout(t)
    \/ Relock(t)

PusherAct(t) ==
    \/ ncalls[t] < MaxWakePush /\ push_lock(t, "A")
    \/ push_cs(t)
    \/ push_notify(t)

NextWake ==
    \/ PopperAct(Popper)
    \/ PeekerAct(Peeker)
    \/ TimedPopperAct(TimedPopper)
    \/ PusherAct(Pusher)
    \/ \E t \in {Popper, Peeker, TimedPopper} : SpuriousWakeup(t)

FairWake ==
    /\ SF_vars(PopperAct(Popper))
    /\ SF_vars(PeekerAct(Peeker))
    /\ SF_vars(TimedPopperAct(TimedPopper))
    /\ SF_vars(PusherAct(Pusher))

SpecWake == Init /\ [][NextWake]_vars /\ FairWake

\* SpecDestroy: each thread of Waiters calls pop() once on A; when all of them
\* are blocked, the owner of A destroys it. No call starts on an instance
\* whose destruction has begun.
Owner == "t5"

DestroyAct(t) ==
    \/ AllBlocked /\ ncalls[t] = 0 /\ dtor_lock(t, "A")
    \/ dtor_close_cs(t)
    \/ dtor_close_notify(t)
    \/ dtor_end(t)

BlockedPopAct(t) ==
    \/ ncalls[t] = 0 /\ ncalls[Owner] = 0 /\ pop_lock(t, "A")
    \/ pop_wait(t)
    \/ Relock(t)
    \/ SpuriousWakeup(t)
    \/ use_after_destroy(t)

NextDestroy ==
    \/ \E t \in Waiters : BlockedPopAct(t)
    \/ DestroyAct(Owner)

SpecDestroy == Init /\ [][NextDestroy]_vars

\* SpecCross: one thread runs A = std::move(B), another B = std::move(A),
\* MaxCrossMoves times each, while a third makes MaxCrossCalls calls of push,
\* pop, try_pop or close on A and B. B is default constructed first.
Mover1 == "t1"
Mover2 == "t2"
Movers == {Mover1, Mover2}
Bystanders == {"t3"}

MoverAct(t, q, o) ==
    \/ ncalls[t] < MaxCrossMoves /\ move_assign_call(t, q, o)
    \/ MoveStep(t)

BystanderAct(t) ==
    \/ \E q \in Queues : ncalls[t] < MaxCrossCalls /\ push_lock(t, q)
    \/ \E q \in Queues : ncalls[t] < MaxCrossCalls /\ pop_lock(t, q)
    \/ \E q \in Queues : ncalls[t] < MaxCrossCalls /\ try_pop_lock(t, q)
    \/ \E q \in Queues : ncalls[t] < MaxCrossCalls /\ close_lock(t, q)
    \/ push_cs(t)
    \/ push_notify(t)
    \/ pop_wait(t)
    \/ try_pop_cs(t)
    \/ close_cs(t)
    \/ close_notify(t)
    \/ Relock(t)

NextCross ==
    \/ MoverAct(Mover1, "A", "B")
    \/ MoverAct(Mover2, "B", "A")
    \/ \E t \in Bystanders : BystanderAct(t)
    \/ \E t \in Bystanders : SpuriousWakeup(t)
    \/ default_ctor("B")

SpecCross == Init /\ [][NextCross]_vars

\* SpecMovedFrom: each thread of Waiters calls pop() or front() once on the
\* empty, running instance A; when all of them are blocked, A is moved into
\* B, by move construction of B or by move assignment to a default
\* constructed B. No other call is made.
MoverOut == "t4"

MoveOutAct(t) ==
    \/ AllBlocked /\ ncalls[t] = 0 /\ move_ctor_call(t, "B", "A")
    \/ AllBlocked /\ ncalls[t] = 0 /\ move_assign_call(t, "B", "A")
    \/ MoveStep(t)

NextMovedFrom ==
    \/ \E t \in Waiters : WaiterAct(t)
    \/ \E t \in Waiters : SpuriousWakeup(t)
    \/ MoveOutAct(MoverOut)
    \/ default_ctor("B")

FairMovedFrom ==
    /\ \A t \in Waiters : SF_vars(WaiterAct(t))
    /\ SF_vars(MoveOutAct(MoverOut))

SpecMovedFrom == Init /\ [][NextMovedFrom]_vars /\ FairMovedFrom

\* SpecMoveInto: one thread calls pop() once on the empty, running instance
\* B; another makes MaxIntoCalls calls of push and close on A; when the pop()
\* is blocked and A is non-empty or closed, a third move-assigns A to B. No
\* call of push or close is made on B.
PopperB == "t1"
Feeder == "t2"
MoverIn == "t3"

PopperBAct(t) ==
    \/ ncalls[t] = 0 /\ pop_lock(t, "B")
    \/ pop_wait(t)
    \/ Relock(t)

FeederAct(t) ==
    \/ ncalls[t] < MaxIntoCalls /\ push_lock(t, "A")
    \/ ncalls[t] < MaxIntoCalls /\ close_lock(t, "A")
    \/ push_cs(t)
    \/ push_notify(t)
    \/ close_cs(t)
    \/ close_notify(t)

MoveInAct(t) ==
    \/ /\ ncalls[t] = 0
       /\ pc[PopperB] = "blocked"
       /\ m_queue["A"] # <<>> \/ ~m_is_running["A"]
       /\ move_assign_call(t, "B", "A")
    \/ MoveStep(t)

NextMoveInto ==
    \/ PopperBAct(PopperB)
    \/ SpuriousWakeup(PopperB)
    \/ FeederAct(Feeder)
    \/ MoveInAct(MoverIn)
    \/ default_ctor("B")

FairMoveInto ==
    /\ SF_vars(PopperBAct(PopperB))
    /\ SF_vars(FeederAct(Feeder))
    /\ SF_vars(MoveInAct(MoverIn))
    /\ WF_vars(default_ctor("B"))

SpecMoveInto == Init /\ [][NextMoveInto]_vars /\ FairMoveInto

\* SpecXfer: the producers each push MaxXferPush items on A, a consumer makes
\* MaxXferPops calls of pop or try_pop on A, and at any moment a fourth
\* thread constructs B from std::move(A). No call is made on B.
Remover == "t3"
Transferrer == "t4"

XferProducerAct(t) ==
    \/ ncalls[t] < MaxXferPush /\ push_lock(t, "A")
    \/ push_cs(t)
    \/ push_notify(t)

RemoverAct(t) ==
    \/ ncalls[t] < MaxXferPops /\ pop_lock(t, "A")
    \/ ncalls[t] < MaxXferPops /\ try_pop_lock(t, "A")
    \/ pop_wait(t)
    \/ try_pop_cs(t)
    \/ Relock(t)
    \/ SpuriousWakeup(t)

TransferAct(t) ==
    \/ ncalls[t] = 0 /\ move_ctor_call(t, "B", "A")
    \/ MoveStep(t)

NextXfer ==
    \/ \E t \in Producers : XferProducerAct(t)
    \/ RemoverAct(Remover)
    \/ TransferAct(Transferrer)

SpecXfer == Init /\ [][NextXfer]_vars

\* The snapshot calls and their steps.
SnapCall(t, q) ==
    \/ empty_lock(t, q)
    \/ size_lock(t, q)
    \/ is_running_lock(t, q)

SnapStep(t) ==
    \/ empty_cs(t)
    \/ size_cs(t)
    \/ is_running_cs(t)

\* SpecSnap: push, pop, try_pop, close and the snapshots on the one instance
\* A, which takes part in no move; MaxSnapCalls calls in all.
NextSnap ==
    \/ \E t \in Workers : Calls < MaxSnapCalls /\ push_lock(t, "A")
    \/ \E t \in Workers : Calls < MaxSnapCalls /\ pop_lock(t, "A")
    \/ \E t \in Workers : Calls < MaxSnapCalls /\ try_pop_lock(t, "A")
    \/ \E t \in Workers : Calls < MaxSnapCalls /\ close_lock(t, "A")
    \/ \E t \in Workers : Calls < MaxSnapCalls /\ SnapCall(t, "A")
    \/ \E t \in Workers : SnapStep(t)
    \/ \E t \in Workers : push_cs(t) \/ push_notify(t)
    \/ \E t \in Workers : pop_wait(t) \/ try_pop_cs(t) \/ Relock(t)
    \/ \E t \in Workers : close_cs(t) \/ close_notify(t)
    \/ \E t \in Workers : SpuriousWakeup(t)

SpecSnap == Init /\ [][NextSnap]_vars

\* SpecAll: every public operation, moves and snapshots included, on two
\* instances; MaxAllCalls calls in all.
NextAll ==
    \/ \E t \in Workers : Step(t)
    \/ \E t \in Workers : SnapStep(t)
    \/ \E t \in Workers : SpuriousWakeup(t)
    \/ \E t \in Workers : MoveStep(t)
    \/ \E t \in Workers, q \in Queues : Calls < MaxAllCalls /\ Call(t, q)
    \/ \E t \in Workers, q \in Queues : Calls < MaxAllCalls /\ SnapCall(t, q)
    \/ \E t \in Workers : Calls < MaxAllCalls /\ MoveCall(t)
    \/ \E q \in Queues : default_ctor(q)

SpecAll == Init /\ [][NextAll]_vars

----------------------------------------------------------------------------
(* Properties *)

IsPrefix(a, b) == Len(a) <= Len(b) /\ SubSeq(b, 1, Len(a)) = a
Elems(a) == {a[i] : i \in 1..Len(a)}

\* Thread t returns from a removing call in this step.
RemovalReturns(t) ==
    /\ op[t] \in RemovingOps
    /\ pc[t] \in {"wait_cs", "final_cs", "try_cs"}
    /\ pc'[t] = "idle"

\* C1 (FIFO): on an instance that takes part in no move, the items returned
\* by pop, try_pop, pop_for and pop_until, in the order of their critical
\* sections, are a prefix of the items whose push returned true, in the order
\* of the pushes' critical sections.
C1_Fifo == \A q \in Queues : IsPrefix(removed[q], pushed[q])

\* Two items were pushed and both were removed, the second by a call of the
\* wait family.
C1_Witness ==
    /\ Len(removed["A"]) = 2
    /\ \E t \in Threads : ret[t].op \in {"pop", "pop_for", "pop_until"} /\ ret[t].item = 2

AllConsumersDone == \A c \in Consumers : ConsumerDone(c)

C2_Received ==
    AllConsumersDone =>
        /\ Elems(removed["A"]) = Elems(pushed["A"])
        /\ Len(removed["A"]) = Len(pushed["A"])
        /\ Cardinality(Elems(removed["A"])) = Len(removed["A"])
        /\ Len(pushed["A"]) = ItemsPerProducer * Cardinality(Producers)
        /\ rejected = {}
        /\ m_queue["A"] = <<>>

\* C2 (no loss, no duplication): with the producers each pushing
\* ItemsPerProducer distinct items, the consumers looping on pop() until it
\* returns absent and close() called once after the producers have finished,
\* every consumer terminates, and then the items the consumers received are
\* the items whose push returned true, each received once; no push fails.
C2_NoLossNoDup == <>AllConsumersDone /\ []C2_Received

\* Every consumer has terminated and every item was received.
C2_Witness ==
    /\ AllConsumersDone
    /\ Len(removed["A"]) = ItemsPerProducer * Cardinality(Producers)

C3_RejectedUnseen ==
    \A x \in rejected :
        /\ \A q \in Queues : x \notin Elems(m_queue[q]) /\ x \notin Elems(removed[q])
        /\ \A t \in Threads : ret[t].op \in RemovingOps \cup {"front"} => ret[t].item # x

C3_ClosedPushStep ==
    \A t \in Threads :
        (pc[t] = "push_cs" /\ pc'[t] # "push_cs" /\ ~m_is_running[this[t]]) =>
            /\ pc'[t] = "idle"
            /\ ret'[t] = [op |-> "push", q |-> this[t], item |-> arg[t], ok |-> FALSE]
            /\ m_queue' = m_queue
            /\ m_cv' = m_cv
            /\ \A u \in Threads \ {t} : pc'[u] = pc[u]

\* C3 (push after close): a push whose critical section runs while
\* m_is_running is false returns false, leaves the buffer and the wait set
\* unchanged, wakes no thread and issues no notification; its item is in no
\* buffer and is returned by no pop, try_pop, pop_for, pop_until or front.
C3_PushAfterClose == [][C3_ClosedPushStep]_vars /\ []C3_RejectedUnseen

\* A push was refused and a reading call has returned.
C3_Witness ==
    /\ rejected # {}
    /\ \E t \in Threads : ret[t].op \in RemovingOps \cup {"front"}

C4_DrainStep ==
    \A t \in Threads :
        (RemovalReturns(t) /\ owed[this[t]] # <<>>) =>
            ret'[t].ok /\ ret'[t].item = Head(owed[this[t]])

\* C4 as stated (drain on close): after a close() that found i1..in buffered,
\* the next n removing calls on the instance return i1..in in order, none of
\* them absent.
C4_Drain == [][C4_DrainStep]_vars

C4_DrainNoMoveStep ==
    \A t \in Threads :
        (RemovalReturns(t) /\ owed[this[t]] # <<>> /\ ~xfer[this[t]]) =>
            ret'[t].ok /\ ret'[t].item = Head(owed[this[t]])

\* C4 (amended): after a close() that found i1..in buffered, the next n
\* removing calls on the instance return i1..in in order, none of them
\* absent, provided the instance is neither the source nor the destination
\* of a move between that close() and those calls.
C4_DrainNoMove == [][C4_DrainNoMoveStep]_vars

\* A removing call after close() returned an item the close() found buffered,
\* and another such item is still buffered.
C4_Witness ==
    /\ drained["A"] >= 1 /\ ~xfer["A"] /\ ~m_is_running["A"]
    /\ owed["A"] # <<>>

AllReturnedAbsent ==
    \A t \in Waiters : pc[t] = "idle" /\ ret[t].op \in {"pop", "front"} /\ ~ret[t].ok

\* C5 (shutdown wakes all): with every thread of Waiters blocked in pop() or
\* front() on the empty, running instance, one call of close() makes all of
\* them return absent, under fair scheduling and with no other call: once
\* close() has been called (which SpecShutdown allows only while every waiter
\* is blocked), every waiter eventually has returned absent.
C5_ShutdownWakesAll == (ncalls[Closer] = 1) ~> AllReturnedAbsent

\* close() has returned, and the waiters, which were all blocked when it was
\* called, have all returned absent; both pop() and front() were among them.
C5_Witness ==
    /\ AllReturnedAbsent
    /\ ret[Closer].op = "close"
    /\ \E t, u \in Waiters : ret[t].op = "pop" /\ ret[u].op = "front"

StrandedPop ==
    /\ m_queue["A"] # <<>>
    /\ \E t \in Threads : pc[t] = "blocked" /\ op[t] = "pop"

\* C6 as stated: under fair scheduling and with no spurious wakeup owed, the
\* buffer does not stay non-empty for ever while a thread stays blocked in
\* pop(): whenever that is the case, it eventually is not.
C6_NoStrandedPop == []<>~StrandedPop

\* C7 as stated: once m_is_running is false it is never true again.
C7_Monotone == [][\A q \in Queues : ~m_is_running[q] => ~m_is_running'[q]]_vars

C7_RevivedOnlyByMoveStep ==
    \A q \in Queues :
        (~m_is_running[q] /\ m_is_running'[q]) =>
            \E t \in Threads :
                /\ pc[t] = "mv_cs" /\ op[t] = "move_assign"
                /\ this[t] = q /\ m_is_running[other[t]]
                /\ pc'[t] = "idle"

C7_RunningAtCreation ==
    \A q \in Queues : life[q] \in {"unborn", "constructing"} => m_is_running[q]

\* C7 (amended): m_is_running is initialised to true and goes from false to
\* true in one case only, when the instance is the destination of a move
\* assignment whose source is running.
C7_RevivedOnlyByMove == [][C7_RevivedOnlyByMoveStep]_vars /\ []C7_RunningAtCreation

\* B was closed, and is running again after a move assignment into it.
C7_Witness ==
    /\ m_is_running["B"]
    /\ \E t, u \in Threads :
          /\ ret[t].op = "close" /\ ret[t].q = "B"
          /\ ret[u].op = "move_assign" /\ ret[u].q = "B" /\ ret[u].ok

C8_MoveStep ==
    \A t \in Threads :
        /\ (pc[t] = "mv_cs" /\ pc'[t] = "idle") =>
              /\ m_queue'[other[t]] = <<>>
              /\ ~m_is_running'[other[t]]
              /\ m_queue'[this[t]] = m_queue[other[t]]
              /\ m_is_running'[this[t]] = m_is_running[other[t]]
        /\ (pc[t] = "idle" /\ pc'[t] = "idle" /\ ncalls'[t] # ncalls[t]) =>
              /\ ret'[t].op = "move_assign"
              /\ m_queue' = m_queue
              /\ m_is_running' = m_is_running

\* C8 (move semantics): a move of `other' into `this' (construction, or
\* assignment with this != &other) leaves other with an empty buffer and
\* m_is_running = false, and this with other's buffer, in order, and other's
\* m_is_running, as they were when the move took both mutexes; a move
\* assignment of an instance to itself changes no buffer and no flag.
C8_Move == [][C8_MoveStep]_vars

\* A move has carried a non-empty, running buffer into its destination and
\* left its source empty and not running.
C8_Witness ==
    \E t \in Threads :
        /\ ret[t].op \in {"move_assign", "move_ctor"} /\ ret[t].ok
        /\ m_queue[ret[t].q] # <<>> /\ m_is_running[ret[t].q]
        /\ \E o \in Queues \ {ret[t].q} : m_queue[o] = <<>> /\ ~m_is_running[o]

\* C9 as stated: no thread is inside a member function of an instance whose
\* lifetime has ended, and a pop() released by the destruction returns absent.
C9_DestructorSafe ==
    \A t \in Threads :
        /\ this[t] # None => life[this[t]] # "dead"
        /\ t \notin dangling
        /\ (pc[t] = "idle" /\ ret[t].op = "pop") => ~ret[t].ok

C10_TryPopStep ==
    \A t \in Threads :
        (pc[t] = "try_cs" /\ pc'[t] # "try_cs") =>
            LET q == this[t] IN
            /\ pc'[t] = "idle"
            /\ m_cv' = m_cv
            /\ m_is_running' = m_is_running
            /\ IF m_queue[q] # <<>>
               THEN /\ ret'[t] = [op |-> "try_pop", q |-> q, item |-> Head(m_queue[q]), ok |-> TRUE]
                    /\ m_queue' = [m_queue EXCEPT ![q] = Tail(m_queue[q])]
               ELSE /\ ret'[t] = [op |-> "try_pop", q |-> q, item |-> nullopt, ok |-> FALSE]
                    /\ m_queue' = m_queue

\* C10 (try_pop never waits): try_pop returns at the end of its one critical
\* section, never blocked in m_cv; it removes and returns the head when the
\* buffer is not empty and returns absent when it is, whatever m_is_running,
\* which it leaves as it was.
C10_TryPop == [][C10_TryPopStep]_vars

\* try_pop has returned an item from an instance that is not running.
C10_Witness ==
    \E t \in Threads : ret[t].op = "try_pop" /\ ret[t].ok /\ ~m_is_running[ret[t].q]

C11_TimedStep ==
    \A t \in Threads :
        (op[t] \in TimedOps /\ pc[t] \in {"wait_cs", "final_cs"} /\ pc'[t] = "idle") =>
            LET q == this[t] IN
            /\ m_mutex[q] = t
            /\ pc[t] = "final_cs" => (ret'[t].ok <=> m_queue[q] # <<>>)
            /\ ret'[t].ok =>
                  /\ ret'[t].item = Head(m_queue[q])
                  /\ m_queue' = [m_queue EXCEPT ![q] = Tail(m_queue[q])]
            /\ ~ret'[t].ok =>
                  /\ ret'[t].item = nullopt
                  /\ m_queue[q] = <<>>
                  /\ m_queue' = m_queue
            /\ m_is_running' = m_is_running

\* C11 (timed waits): a pop_for / pop_until whose bound has elapsed returns
\* absent exactly when the buffer is empty at its last look under the mutex,
\* and otherwise removes and returns the head; a pop_for / pop_until that
\* returns absent leaves every buffer as it was, and none changes
\* m_is_running.
C11_TimedWait == [][C11_TimedStep]_vars

\* One timed call has returned absent after its bound elapsed, on an instance
\* still running; another has returned an item it found at its last look,
\* after its bound elapsed.
C11_Witness ==
    \E t, u \in Threads :
        /\ pc[t] = "idle" /\ ret[t].op \in TimedOps /\ elapsed[t]
        /\ ~ret[t].ok /\ m_is_running[ret[t].q]
        /\ pc[u] = "idle" /\ ret[u].op \in TimedOps /\ elapsed[u] /\ ret[u].ok

C12_FrontStep ==
    \A t \in Threads :
        (op[t] = "front" /\ pc[t] = "wait_cs" /\ pc'[t] # "wait_cs") =>
            LET q == this[t] IN
            /\ m_mutex[q] = t
            /\ m_queue' = m_queue
            /\ m_is_running' = m_is_running
            /\ IF m_queue[q] # <<>>
               THEN /\ pc'[t] = "idle"
                    /\ ret'[t] = [op |-> "front", q |-> q, item |-> Head(m_queue[q]), ok |-> TRUE]
               ELSE IF ~m_is_running[q]
               THEN /\ pc'[t] = "idle"
                    /\ ret'[t] = [op |-> "front", q |-> q, item |-> nullopt, ok |-> FALSE]
               ELSE /\ pc'[t] = "blocked"
                    /\ t \in m_cv'[q]

C12_SameWaitStep ==
    \A t \in Threads :
        (op[t] = "pop" /\ pc[t] = "wait_cs" /\ pc'[t] # "wait_cs") =>
            (pc'[t] = "blocked" <=> (m_queue[this[t]] = <<>> /\ m_is_running[this[t]]))

C12_ThenPopStep ==
    \A t \in Threads :
        (op[t] = "pop" /\ pc[t] = "wait_cs" /\ pc'[t] # "wait_cs"
            /\ peeked[this[t]] # nullopt) =>
                /\ pc'[t] = "idle"
                /\ ret'[t].ok /\ ret'[t].item = peeked[this[t]]

\* C12 (front is a pure peek): front() blocks exactly when pop() does (buffer
\* empty and m_is_running true); it returns a copy of the head when the buffer
\* is not empty and absent when it is empty and m_is_running is false; it
\* leaves every buffer and every flag as they were; and a pop() whose
\* critical section is the next one on the instance after a front() that
\* returned an item returns that item.
C12_FrontPeek ==
    /\ [][C12_FrontStep]_vars
    /\ [][C12_SameWaitStep]_vars
    /\ [][C12_ThenPopStep]_vars

\* front() returned an item, which is no longer in the buffer: a pop() on
\* the same instance has since returned the same item.
C12_Witness ==
    \E t, u \in Threads :
        /\ t # u
        /\ pc[t] = "idle" /\ ret[t].op = "front" /\ ret[t].ok
        /\ pc[u] = "idle" /\ ret[u].op = "pop" /\ ret[u].ok /\ ret[u].q = ret[t].q
        /\ ret[u].item = ret[t].item
        /\ peeked[ret[t].q] = nullopt

C13_CloseStep ==
    \A t \in Threads :
        (pc[t] = "close_cs" /\ pc'[t] # "close_cs") =>
            LET q == this[t] IN
            /\ m_mutex[q] = t
            /\ m_queue' = m_queue
            /\ m_is_running' = [m_is_running EXCEPT ![q] = FALSE]
            /\ ~m_is_running[q] => m_is_running' = m_is_running

\* C13 (close is idempotent): the critical section of close(), whichever
\* thread runs it and however many have run before, leaves the instance with
\* m_is_running = false and every buffer as it was, items and order; run on
\* an instance that is already closed it changes neither buffer nor flag.
C13_CloseIdempotent == [][C13_CloseStep]_vars

\* Two threads have each returned from close() on the same instance, which
\* is not running and still holds the item pushed before.
C13_Witness ==
    \E t, u \in Threads :
        /\ t # u
        /\ pc[t] = "idle" /\ ret[t].op = "close"
        /\ pc[u] = "idle" /\ ret[u].op = "close" /\ ret[u].q = ret[t].q
        /\ ~m_is_running[ret[t].q]
        /\ m_queue[ret[t].q] # <<>>

\* A thread inside a move that holds a mutex can take its next step: it never
\* blocks on one mutex while holding the other.
C14_NoHoldAndWait ==
    \A t \in Movers :
        (pc[t] # "idle" /\ \E q \in Queues : m_mutex[q] = t) => ENABLED MoveStep(t)

\* A thread inside a move that is blocked on a mutex waits for a thread that
\* can take its next step.
C14_WaitsForRunner ==
    \A t \in Movers :
        pc[t] \in {"mv_lock_this", "mv_lock_other"} =>
            LET m == IF pc[t] = "mv_lock_this" THEN this[t] ELSE other[t]
                h == m_mutex[m] IN
            IF h = None THEN ENABLED MoveStep(t) ELSE ENABLED (MoveStep(h) \/ Step(h))

C15_MovedFromWakesAll ==
    (pc[MoverOut] = "idle" /\ ncalls[MoverOut] = 1) ~> AllReturnedAbsent

\* C16 as stated: once A, non-empty or closed, has been move-assigned to the
\* running, empty instance B on which a thread is blocked in pop(), that
\* thread eventually returns, under fair scheduling, with no spurious wakeup
\* owed and no push or close on B.
C16_MoveIntoWakes ==
    (pc[MoverIn] = "idle" /\ ncalls[MoverIn] = 1) ~>
        (pc[PopperB] = "idle" /\ ret[PopperB].op = "pop")

C17_WaitReturnStep ==
    \A t \in Threads :
        (op[t] \in {"pop", "front"} /\ pc[t] = "wait_cs" /\ pc'[t] # "wait_cs") =>
            LET q == this[t] IN
            /\ m_mutex[q] = t
            /\ IF m_queue[q] # <<>> \/ ~m_is_running[q]
               THEN /\ pc'[t] = "idle"
                    /\ ret'[t].ok <=> m_queue[q] # <<>>
                    /\ ~ret'[t].ok => (m_queue[q] = <<>> /\ ~m_is_running[q])
               ELSE pc'[t] = "blocked"

\* C17 (spurious wakeups): with spurious wakeups of m_cv allowed at any time,
\* whenever pop() or front() is back under the mutex it returns only if the
\* buffer is not empty or m_is_running is false, and waits again otherwise;
\* it returns absent only with the buffer empty and m_is_running false.
C17_SpuriousTolerant == [][C17_WaitReturnStep]_vars

\* A pop() or front() has been woken with no notification (no push was
\* accepted and no close() ran on the instance, and a move notifies nobody)
\* while the instance is still empty and running.
C17_Witness ==
    \E t \in Threads :
        /\ pc[t] = "woken" /\ op[t] \in {"pop", "front"}
        /\ pushed[this[t]] = <<>> /\ ~closed[this[t]]
        /\ m_queue[this[t]] = <<>> /\ m_is_running[this[t]]

\* Thread t is at a step of a member function that reads or writes m_queue
\* or m_is_running of instance q.
InCs(t, q) ==
    \/ /\ pc[t] \in {"wait_cs", "final_cs", "try_cs", "push_cs", "close_cs", "snap_cs"}
       /\ this[t] = q
    \/ /\ pc[t] = "mv_cs"
       /\ q \in {this[t], other[t]}

C18_HoldsInCs == \A t \in Threads, q \in Queues : InCs(t, q) => m_mutex[q] = t

C18_OneInCs ==
    \A t, u \in Threads, q \in Queues : (InCs(t, q) /\ InCs(u, q)) => t = u

C18_WriteStep ==
    \A q \in Queues :
        (m_queue'[q] # m_queue[q] \/ m_is_running'[q] # m_is_running[q]) =>
            \E t \in Threads : InCs(t, q) /\ m_mutex[q] = t /\ pc'[t] # pc[t]

\* C18 (mutual exclusion): a thread at a step of any member function that
\* reads or writes an instance's m_queue or m_is_running, the move
\* constructor and move assignment for both instances, holds that
\* instance's m_mutex; no two threads are at such steps on the same instance;
\* and the buffer and the flag change only in a step of the holder.
C18_MutualExclusion == []C18_HoldsInCs /\ []C18_OneInCs /\ [][C18_WriteStep]_vars

\* One thread is in a critical section of an instance while another, woken
\* from its wait on the same instance, waits for the mutex.
C18_Witness ==
    \E t, u \in Threads, q \in Queues :
        /\ t # u
        /\ InCs(t, q)
        /\ pc[u] = "woken" /\ this[u] = q

C20_SnapshotStep ==
    \A t \in Threads :
        (pc[t] = "snap_cs" /\ pc'[t] # "snap_cs") =>
            LET q == this[t]
                n == Len(pushed[q]) - Len(removed[q]) IN
            /\ pc'[t] = "idle"
            /\ m_queue' = m_queue /\ m_is_running' = m_is_running /\ m_cv' = m_cv
            /\ op[t] = "size" => ret'[t].item = n
            /\ op[t] = "empty" => (ret'[t].ok <=> n = 0)
            /\ op[t] = "is_running" => (ret'[t].ok <=> ~closed[q])

C20_Counts ==
    \A q \in Queues :
        /\ Len(m_queue[q]) = Len(pushed[q]) - Len(removed[q])
        /\ m_is_running[q] <=> ~closed[q]

\* C20 (snapshots): on an instance that takes part in no move, the buffer
\* always holds as many items as pushes returned true less removing calls
\* that returned an item, and m_is_running is true exactly when no critical
\* section of close() has run; size() returns that number, empty() returns
\* true exactly when it is 0 and is_running() true exactly when no close()
\* has run; each of the three returns at the end of its one critical
\* section, never blocked in m_cv, leaving buffer, flag and wait set as
\* they were.
C20_Snapshots == []C20_Counts /\ [][C20_SnapshotStep]_vars

\* size() has returned 1 after two pushes and one removal.
C20_Witness ==
    \E t \in Threads :
        /\ ret[t].op = "size" /\ ret[t].item = 1
        /\ Len(pushed["A"]) = 2 /\ Len(removed["A"]) = 1

\* B has been constructed from A.
Transferred == life["B"] = "live"

C19_Accounted ==
    Transferred =>
        /\ pushed["A"] = removed["A"] \o m_queue["B"]
        /\ m_queue["A"] = <<>>
        /\ \A x \in rejected : x \notin Elems(m_queue["B"])

C19_LatePushStep ==
    \A t \in Threads :
        (pc[t] = "push_cs" /\ pc'[t] # "push_cs" /\ this[t] = "A" /\ Transferred) =>
            /\ pc'[t] = "idle" /\ ~ret'[t].ok
            /\ m_queue' = m_queue

\* C19 (no item lost across a transfer): when B is constructed from A while
\* other threads push to A, then from the transfer on the items whose push
\* on A was accepted are exactly the items removing calls on A returned
\* (before the transfer: A is empty from then on) followed by the items in
\* B's buffer, in push order; and every push on A whose critical section
\* runs after the transfer returns false and leaves the buffers alone.
C19_NoLossAcrossTransfer == []C19_Accounted /\ [][C19_LatePushStep]_vars

\* B was constructed from A while producers were pushing: an item was removed
\* from A before the transfer, B holds two others, and a push that came
\* after the transfer was refused.
C19_Witness ==
    /\ Transferred
    /\ removed["A"] # <<>>
    /\ Len(m_queue["B"]) >= 2
    /\ rejected # {}

====
